------------------------------ MODULE Spec2Model ------------------------------
(***************************************************************************)
(* Row builder of the SPS event builder (src/eventbuilder/sps_data.rs):    *)
(* SPSData, a column store keyed by SPSDataField, fed one event at a time  *)
(* by append_event and handed over by convert_to_series.                   *)
(*                                                                         *)
(* f64 values are modelled exactly, as rationals in lowest terms plus the  *)
(* three symbolic forms the angle computation produces; NaN, infinities    *)
(* and rounding are outside the model.                                     *)
(***************************************************************************)
EXTENDS Integers, Sequences, FiniteSets, TLC

VARIABLES
    fields,     \* SPSData.fields : BTreeMap<SPSDataField, Vec<f64>>
    rows,       \* SPSData.rows
    map,        \* the ChannelMap the caller passes to every append_event
    pool,       \* the hits the event source of this run can deliver
    event,      \* argument `event` of the latest append_event call
    weights,    \* argument `weights` of the latest append_event call
    streamed,   \* number of hits the event source has delivered so far
    calls,      \* number of append_event calls made so far
    consumed,   \* TRUE once convert_to_series has taken the SPSData
    series      \* the Vec<Series> convert_to_series returned

vars ==
    <<fields, rows, map, pool, event, weights, streamed, calls, consumed, series>>

-----------------------------------------------------------------------------
(* Bounds of the model *)

\* number of append_event calls in one run
MaxRows == 2

\* number of hits the event source delivers in one run, all events together
MaxStreamed == 4

-----------------------------------------------------------------------------
(* f64 *)

Abs(x) == IF x < 0 THEN -x ELSE x

RECURSIVE GCD(_, _)
GCD(a, b) == IF b = 0 THEN a ELSE GCD(b, a % b)

LCM(a, b) == (a \div GCD(a, b)) * b

\* the number n/d, d # 0, in lowest terms with a positive denominator
F(n, d) ==
    LET s == IF d < 0 THEN -1 ELSE 1
        g == GCD(Abs(n), Abs(d))
    IN  [k |-> "q", n |-> (s * n) \div g, d |-> (s * d) \div g]

fsub(a, b) ==
    LET l == LCM(a.d, b.d)
    IN  F(a.n * (l \div a.d) - b.n * (l \div b.d), l)

fadd(a, b) ==
    LET l == LCM(a.d, b.d)
    IN  F(a.n * (l \div a.d) + b.n * (l \div b.d), l)

fmul(a, b) ==
    LET g1 == GCD(Abs(a.n), b.d)
        g2 == GCD(Abs(b.n), a.d)
    IN  F((a.n \div g1) * (b.n \div g2), (a.d \div g2) * (b.d \div g1))

\* b # 0
fdiv(a, b) == fmul(a, F(b.d, b.n))

\* f64::atan of a rational; atan(0) = 0
atan(a) == IF a.n = 0 THEN F(0, 1) ELSE [k |-> "atan", n |-> a.n, d |-> a.d]

\* std::f64::consts::PI + v, for v an atan
pi_plus(v) == [k |-> "pi+atan", n |-> v.n, d |-> v.d]

\* std::f64::consts::PI * q, for q a rational
pi_times(q) == [k |-> "pi*q", n |-> q.n, d |-> q.d]

INVALID_VALUE == F(-1000000, 1)

-----------------------------------------------------------------------------
(* SPSDataField *)

AnodeFrontEnergy == 0
AnodeFrontShort == 1
AnodeFrontTime == 2
AnodeBackEnergy == 3
AnodeBackShort == 4
AnodeBackTime == 5
ScintLeftEnergy == 6
ScintLeftShort == 7
ScintLeftTime == 8
ScintRightEnergy == 9
ScintRightShort == 10
ScintRightTime == 11
CathodeEnergy == 12
CathodeShort == 13
CathodeTime == 14
DelayFrontLeftEnergy == 15
DelayFrontLeftShort == 16
DelayFrontLeftTime == 17
DelayFrontRightEnergy == 18
DelayFrontRightShort == 19
DelayFrontRightTime == 20
DelayBackLeftEnergy == 21
DelayBackLeftShort == 22
DelayBackLeftTime == 23
DelayBackRightEnergy == 24
DelayBackRightShort == 25
DelayBackRightTime == 26
X1 == 27
X2 == 28
Xavg == 29
Theta == 30
Cebra0Energy == 31
Cebra1Energy == 32
Cebra2Energy == 33
Cebra3Energy == 34
Cebra4Energy == 35
Cebra5Energy == 36
Cebra6Energy == 37
Cebra0Short == 38
Cebra1Short == 39
Cebra2Short == 40
Cebra3Short == 41
Cebra4Short == 42
Cebra5Short == 43
Cebra6Short == 44
Cebra0Time == 45
Cebra1Time == 46
Cebra2Time == 47
Cebra3Time == 48
Cebra4Time == 49
Cebra5Time == 50
Cebra6Time == 51

\* the derived AsRefStr: the variant names, by discriminant
FieldNames == <<
    "AnodeFrontEnergy", "AnodeFrontShort", "AnodeFrontTime",
    "AnodeBackEnergy", "AnodeBackShort", "AnodeBackTime", "ScintLeftEnergy",
    "ScintLeftShort", "ScintLeftTime", "ScintRightEnergy", "ScintRightShort",
    "ScintRightTime", "CathodeEnergy", "CathodeShort", "CathodeTime",
    "DelayFrontLeftEnergy", "DelayFrontLeftShort", "DelayFrontLeftTime",
    "DelayFrontRightEnergy", "DelayFrontRightShort", "DelayFrontRightTime",
    "DelayBackLeftEnergy", "DelayBackLeftShort", "DelayBackLeftTime",
    "DelayBackRightEnergy", "DelayBackRightShort", "DelayBackRightTime",
    "X1", "X2", "Xavg", "Theta", "Cebra0Energy", "Cebra1Energy",
    "Cebra2Energy", "Cebra3Energy", "Cebra4Energy", "Cebra5Energy",
    "Cebra6Energy", "Cebra0Short", "Cebra1Short", "Cebra2Short",
    "Cebra3Short", "Cebra4Short", "Cebra5Short", "Cebra6Short", "Cebra0Time",
    "Cebra1Time", "Cebra2Time", "Cebra3Time", "Cebra4Time", "Cebra5Time",
    "Cebra6Time"
>>

as_ref(field) == FieldNames[field + 1]

\* SPSDataField::iter().collect(): the variants in declaration order
get_field_vec == [i \in 1..Len(FieldNames) |-> i - 1]

\* mutant: the order of the variants reversed
field_gt(a, b) == a > b

\* the derived Ord: variants compare by discriminant
field_lt(a, b) == a < b

-----------------------------------------------------------------------------
(* SPSData *)

Default ==
    [fields |-> [f \in {get_field_vec[i] : i \in DOMAIN get_field_vec} |-> <<>>],
     rows   |-> 0]

\* mutant: pads with 0.0 instead of INVALID_VALUE
push_defaults_zero(fs, nrows) ==
    [f \in DOMAIN fs |->
        IF Len(fs[f]) < nrows THEN Append(fs[f], F(0, 1)) ELSE fs[f]]

push_defaults(fs, nrows) ==
    [f \in DOMAIN fs |->
        IF Len(fs[f]) < nrows THEN Append(fs[f], INVALID_VALUE) ELSE fs[f]]

\* mutant: keeps a value that is already set (first hit wins)
set_value_keep_first(fs, field, value) ==
    IF field \in DOMAIN fs
    THEN IF Len(fs[field]) > 0 /\ fs[field][Len(fs[field])] = INVALID_VALUE
         THEN [fs EXCEPT ![field] = [@ EXCEPT ![Len(@)] = value]]
         ELSE fs
    ELSE fs

\* mutant: first_mut() instead of last_mut()
set_value_first(fs, field, value) ==
    IF field \in DOMAIN fs
    THEN IF Len(fs[field]) > 0
         THEN [fs EXCEPT ![field] = [@ EXCEPT ![1] = value]]
         ELSE fs
    ELSE fs

set_value(fs, field, value) ==
    IF field \in DOMAIN fs
    THEN IF Len(fs[field]) > 0
         THEN [fs EXCEPT ![field] = [@ EXCEPT ![Len(@)] = value]]
         ELSE fs
    ELSE fs

\* ChannelMap::get_channel_data: the channel data of a uuid, if it has any
NoChannel == [some |-> FALSE]

get_channel_data(m, uuid) ==
    IF uuid \in DOMAIN m
    THEN [some |-> TRUE, channel_type |-> m[uuid]]
    ELSE NoChannel

\* one arm of the match on channel_data.channel_type; st holds self.fields and
\* the four captured delay-line timestamps
route_hit(st, hit, channel_type) ==
    CASE
         channel_type = "ScintLeft" ->
            [st EXCEPT !.fields =
                set_value(set_value(set_value(@,
                    ScintLeftEnergy, hit.energy),
                    ScintLeftShort, hit.energy_short),
                    ScintLeftTime, hit.timestamp)]
      [] channel_type = "ScintRight" ->
            [st EXCEPT !.fields =
                set_value(set_value(set_value(@,
                    ScintRightEnergy, hit.energy),
                    ScintRightShort, hit.energy_short),
                    ScintRightTime, hit.timestamp)]
      [] channel_type = "Cathode" ->
            [st EXCEPT !.fields =
                set_value(set_value(set_value(@,
                    CathodeEnergy, hit.energy),
                    CathodeShort, hit.energy_short),
                    CathodeTime, hit.timestamp)]
      [] channel_type = "DelayFrontRight" ->
            [st EXCEPT !.fields =
                set_value(set_value(set_value(@,
                    DelayFrontRightEnergy, hit.energy),
                    DelayFrontRightShort, hit.energy_short),
                    DelayFrontRightTime, hit.timestamp),
                        !.dfr_time = hit.timestamp]
      [] channel_type = "DelayFrontLeft" ->
            [st EXCEPT !.fields =
                set_value(set_value(set_value(@,
                    DelayFrontLeftEnergy, hit.energy),
                    DelayFrontLeftShort, hit.energy_short),
                    DelayFrontLeftTime, hit.timestamp),
                        !.dfl_time = hit.timestamp]
      [] channel_type = "DelayBackRight" ->
            [st EXCEPT !.fields =
                set_value(set_value(set_value(@,
                    DelayBackRightEnergy, hit.energy),
                    DelayBackRightShort, hit.energy_short),
                    DelayBackRightTime, hit.timestamp),
                        !.dbr_time = hit.timestamp]
      [] channel_type = "DelayBackLeft" ->
            [st EXCEPT !.fields =
                set_value(set_value(set_value(@,
                    DelayBackLeftEnergy, hit.energy),
                    DelayBackLeftShort, hit.energy_short),
                    DelayBackLeftTime, hit.timestamp),
                        !.dbl_time = hit.timestamp]
      [] channel_type = "AnodeFront" ->
            [st EXCEPT !.fields =
                set_value(set_value(set_value(@,
                    AnodeFrontEnergy, hit.energy),
                    AnodeFrontShort, hit.energy_short),
                    AnodeFrontTime, hit.timestamp)]
      [] channel_type = "AnodeBack" ->
            [st EXCEPT !.fields =
                set_value(set_value(set_value(@,
                    AnodeBackEnergy, hit.energy),
                    AnodeBackShort, hit.energy_short),
                    AnodeBackTime, hit.timestamp)]
      [] channel_type = "Cebra0" ->
            [st EXCEPT !.fields =
                set_value(set_value(set_value(@,
                    Cebra0Energy, hit.energy),
                    Cebra0Short, hit.energy_short),
                    Cebra0Time, hit.timestamp)]
      [] channel_type = "Cebra1" ->
            [st EXCEPT !.fields =
                set_value(set_value(set_value(@,
                    Cebra1Energy, hit.energy),
                    Cebra1Short, hit.energy_short),
                    Cebra1Time, hit.timestamp)]
      [] channel_type = "Cebra2" ->
            [st EXCEPT !.fields =
                set_value(set_value(set_value(@,
                    Cebra2Energy, hit.energy),
                    Cebra2Short, hit.energy_short),
                    Cebra2Time, hit.timestamp)]
      [] channel_type = "Cebra3" ->
            [st EXCEPT !.fields =
                set_value(set_value(set_value(@,
                    Cebra3Energy, hit.energy),
                    Cebra3Short, hit.energy_short),
                    Cebra3Time, hit.timestamp)]
      [] channel_type = "Cebra4" ->
            [st EXCEPT !.fields =
                set_value(set_value(set_value(@,
                    Cebra4Energy, hit.energy),
                    Cebra4Short, hit.energy_short),
                    Cebra4Time, hit.timestamp)]
      [] channel_type = "Cebra5" ->
            [st EXCEPT !.fields =
                set_value(set_value(set_value(@,
                    Cebra5Energy, hit.energy),
                    Cebra5Short, hit.energy_short),
                    Cebra5Time, hit.timestamp)]
      [] channel_type = "Cebra6" ->
            [st EXCEPT !.fields =
                set_value(set_value(set_value(@,
                    Cebra6Energy, hit.energy),
                    Cebra6Short, hit.energy_short),
                    Cebra6Time, hit.timestamp)]
      [] OTHER -> st

\* mutant: an unmapped channel falls back to the first channel type
process_hit_default(st, hit, m) ==
    LET channel_data == get_channel_data(m, hit.uuid)
    IN  IF channel_data.some
        THEN route_hit(st, hit, channel_data.channel_type)
        ELSE route_hit(st, hit, "AnodeFront")

\* the body of the loop over the event's hits
process_hit(st, hit, m) ==
    LET channel_data == get_channel_data(m, hit.uuid)
    IN  IF channel_data.some
        THEN route_hit(st, hit, channel_data.channel_type)
        ELSE st

\* for hit in event.iter(), from the i-th hit on
RECURSIVE scan_hits(_, _, _, _)
scan_hits(st, ev, m, i) ==
    IF i > Len(ev) THEN st
    ELSE scan_hits(process_hit(st, ev[i], m), ev, m, i + 1)

\* mutant: the back delay line's factor
estimate_x1_back(dfl_time, dfr_time) ==
    fdiv(fmul(fmul(fsub(dfl_time, dfr_time), F(1, 2)), F(1, 1)), F(99, 50))

estimate_x1(dfl_time, dfr_time) ==
    fdiv(fmul(fmul(fsub(dfl_time, dfr_time), F(1, 2)), F(1, 1)), F(21, 10))

estimate_x2(dbl_time, dbr_time) ==
    fdiv(fmul(fmul(fsub(dbl_time, dbr_time), F(1, 2)), F(1, 1)), F(99, 50))

theta_of(diff) ==
    IF diff.n > 0 THEN atan(fdiv(diff, F(36, 1)))
    ELSE IF diff.n < 0 THEN pi_plus(atan(fdiv(diff, F(36, 1))))
    ELSE pi_times(F(1, 2))

NoWeights == [some |-> FALSE]

SomeWeights(w0, w1) == [some |-> TRUE, w0 |-> w0, w1 |-> w1]

xavg_of(w, x1, x2) ==
    IF w.some THEN fadd(fmul(w.w0, x1), fmul(w.w1, x2)) ELSE INVALID_VALUE

\* mutant: || instead of && where the angle is guarded
physics_either(st, w) ==
    LET x1 == IF st.dfr_time # INVALID_VALUE /\ st.dfl_time # INVALID_VALUE
              THEN estimate_x1(st.dfl_time, st.dfr_time) ELSE INVALID_VALUE
        x2 == IF st.dbr_time # INVALID_VALUE /\ st.dbl_time # INVALID_VALUE
              THEN estimate_x2(st.dbl_time, st.dbr_time) ELSE INVALID_VALUE
        f1 == IF st.dfr_time # INVALID_VALUE /\ st.dfl_time # INVALID_VALUE
              THEN set_value(st.fields, X1, x1) ELSE st.fields
        f2 == IF st.dbr_time # INVALID_VALUE /\ st.dbl_time # INVALID_VALUE
              THEN set_value(f1, X2, x2) ELSE f1
    IN  IF x1 # INVALID_VALUE \/ x2 # INVALID_VALUE
        THEN set_value(set_value(f2, Theta, theta_of(fsub(x2, x1))),
                       Xavg, xavg_of(w, x1, x2))
        ELSE f2

\* the derived quantities, from the four captured timestamps
physics(st, w) ==
    LET x1 == IF st.dfr_time # INVALID_VALUE /\ st.dfl_time # INVALID_VALUE
              THEN estimate_x1(st.dfl_time, st.dfr_time) ELSE INVALID_VALUE
        x2 == IF st.dbr_time # INVALID_VALUE /\ st.dbl_time # INVALID_VALUE
              THEN estimate_x2(st.dbl_time, st.dbr_time) ELSE INVALID_VALUE
        f1 == IF st.dfr_time # INVALID_VALUE /\ st.dfl_time # INVALID_VALUE
              THEN set_value(st.fields, X1, x1) ELSE st.fields
        f2 == IF st.dbr_time # INVALID_VALUE /\ st.dbl_time # INVALID_VALUE
              THEN set_value(f1, X2, x2) ELSE f1
    IN  IF x1 # INVALID_VALUE /\ x2 # INVALID_VALUE
        THEN set_value(set_value(f2, Theta, theta_of(fsub(x2, x1))),
                       Xavg, xavg_of(w, x1, x2))
        ELSE f2

\* mutant: self.rows += 1 after push_defaults
append_event_late_increment(self, ev, m, w) ==
    LET nrows == self.rows + 1
        st0   == [fields   |-> push_defaults(self.fields, self.rows),
                  dfl_time |-> INVALID_VALUE, dfr_time |-> INVALID_VALUE,
                  dbl_time |-> INVALID_VALUE, dbr_time |-> INVALID_VALUE]
    IN  [fields |-> physics(scan_hits(st0, ev, m, 1), w), rows |-> nrows]

append_event(self, ev, m, w) ==
    LET nrows == self.rows + 1
        st0   == [fields   |-> push_defaults(self.fields, nrows),
                  dfl_time |-> INVALID_VALUE, dfr_time |-> INVALID_VALUE,
                  dbl_time |-> INVALID_VALUE, dbr_time |-> INVALID_VALUE]
    IN  [fields |-> physics(scan_hits(st0, ev, m, 1), w), rows |-> nrows]

\* the keys of the map in ascending order: BTreeMap iteration
RECURSIVE into_iter(_)
into_iter(keys) ==
    IF keys = {} THEN <<>>
    ELSE LET least == CHOOSE a \in keys : \A b \in keys \ {a} : field_lt(a, b)
         IN  <<least>> \o into_iter(keys \ {least})

Series(name, values) == [name |-> name, values |-> values]

convert_to_series(self) ==
    LET order == into_iter(DOMAIN self.fields)
    IN  [i \in 1..Len(order) |-> Series(as_ref(order[i]), self.fields[order[i]])]

-----------------------------------------------------------------------------
(* The callers: channel maps, event sources, weights *)

\* a CompassData hit with integer readings
Hit(uuid, energy, energy_short, timestamp) ==
    [uuid |-> uuid, energy |-> F(energy, 1),
     energy_short |-> F(energy_short, 1), timestamp |-> F(timestamp, 1)]

\* uuid 9 is in no channel map
DelayMap ==
    0 :> "DelayFrontLeft" @@ 1 :> "DelayFrontRight" @@
    2 :> "DelayBackLeft" @@ 3 :> "DelayBackRight"

\* two channels share the role ScintLeft
FocalMap ==
    0 :> "AnodeFront" @@ 1 :> "AnodeBack" @@ 2 :> "ScintLeft" @@
    3 :> "ScintRight" @@ 4 :> "Cathode" @@ 5 :> "ScintLeft"

\* "Other" stands for a channel type append_event has no arm for
CebraMap ==
    0 :> "Cebra0" @@ 1 :> "Cebra1" @@ 2 :> "Cebra2" @@ 3 :> "Cebra3" @@
    4 :> "Cebra4" @@ 5 :> "Cebra5" @@ 6 :> "Cebra6" @@ 7 :> "Other"

Source(m, hits) == [map |-> m, hits |-> hits]

Sources == {
    \* estimate2 < estimate1
    Source(DelayMap, {Hit(0, 11, 1, 100), Hit(1, 12, 2, 80),
                      Hit(2, 13, 3, 50), Hit(3, 14, 4, 60)}),
    \* estimate2 > estimate1
    Source(DelayMap, {Hit(0, 11, 1, 80), Hit(1, 12, 2, 100),
                      Hit(2, 13, 3, 60), Hit(3, 14, 4, 50)}),
    \* estimate2 = estimate1 = 25/3
    Source(DelayMap, {Hit(0, 11, 1, 35), Hit(1, 12, 2, 0),
                      Hit(2, 13, 3, 33), Hit(3, 14, 4, 0)}),
    \* (0 - 4200000) * 0.5 / 2.1 = -1.0e6
    Source(DelayMap, {Hit(0, 11, 1, 0), Hit(1, 12, 2, 4200000),
                      Hit(2, 13, 3, 50), Hit(3, 14, 4, 60)}),
    \* a repeated role, a timestamp of -1.0e6, an unmapped channel
    Source(DelayMap, {Hit(0, 11, 1, 100), Hit(0, 21, 5, -1000000),
                      Hit(1, 12, 2, 80), Hit(9, 15, 7, 70)}),
    Source(DelayMap, {Hit(2, 13, 3, 50), Hit(2, 23, 5, 40),
                      Hit(3, 14, 4, 60), Hit(3, 24, 6, -1000000)}),
    Source(FocalMap, {Hit(0, 11, 1, 100), Hit(0, 21, 5, 101),
                      Hit(1, 12, 2, 102), Hit(4, 13, 3, 103)}),
    Source(FocalMap, {Hit(2, 11, 1, 100), Hit(5, 21, 5, 101),
                      Hit(3, 12, 2, 102), Hit(9, 13, 3, 103)}),
    Source(CebraMap, {Hit(0, 11, 1, 100), Hit(1, 12, 2, 101),
                      Hit(2, 13, 3, 102), Hit(3, 14, 4, 103)}),
    Source(CebraMap, {Hit(4, 11, 1, 100), Hit(5, 12, 2, 101),
                      Hit(6, 13, 3, 102), Hit(7, 14, 4, 103)})
}

Weights == {NoWeights, SomeWeights(F(1, 2), F(1, 1))}

\* the events of at most n hits a source can deliver: its hits in any order,
\* none of them twice in one event
Events(hits, n) ==
    {ev \in UNION {[1..len -> hits] : len \in 0..n} :
        \A i, j \in DOMAIN ev : i # j => ev[i] # ev[j]}

-----------------------------------------------------------------------------
(* The state machine *)

Init ==
    /\ fields = Default.fields
    /\ rows = Default.rows
    /\ \E s \in Sources : map = s.map /\ pool = s.hits
    /\ event = <<>>
    /\ weights = NoWeights
    /\ streamed = 0
    /\ calls = 0
    /\ consumed = FALSE
    /\ series = <<>>

AppendEvent ==
    /\ ~consumed
    /\ rows < MaxRows
    /\ \E ev \in Events(pool, MaxStreamed - streamed), w \in Weights :
          LET self == append_event([fields |-> fields, rows |-> rows], ev, map, w)
          IN  /\ fields' = self.fields
              /\ rows' = self.rows
              /\ event' = ev
              /\ weights' = w
              /\ streamed' = streamed + Len(ev)
    /\ calls' = calls + 1
    /\ UNCHANGED <<map, pool, consumed, series>>

ConvertToSeries ==
    /\ ~consumed
    /\ series' = convert_to_series([fields |-> fields, rows |-> rows])
    /\ consumed' = TRUE
    /\ UNCHANGED <<fields, rows, map, pool, event, weights, streamed, calls>>

Next == AppendEvent \/ ConvertToSeries

Spec == Init /\ [][Next]_vars

-----------------------------------------------------------------------------
(* Vocabulary of the properties, read off the latest call's arguments *)

ColumnRoles ==
    {"AnodeFront", "AnodeBack", "ScintLeft", "ScintRight", "Cathode",
     "DelayFrontLeft", "DelayFrontRight", "DelayBackLeft", "DelayBackRight",
     "Cebra0", "Cebra1", "Cebra2", "Cebra3", "Cebra4", "Cebra5", "Cebra6"}

DelayRoles ==
    {"DelayFrontLeft", "DelayFrontRight", "DelayBackLeft", "DelayBackRight"}

AllFields == 0..(Len(FieldNames) - 1)

FieldNamed(name) == (CHOOSE i \in DOMAIN FieldNames : FieldNames[i] = name) - 1

EnergyOf(role) == FieldNamed(role \o "Energy")
ShortOf(role) == FieldNamed(role \o "Short")
TimeOf(role) == FieldNamed(role \o "Time")

\* the newest entry of a column
LastOf(f) == fields[f][Len(fields[f])]

RoleOfHit(hit) == IF hit.uuid \in DOMAIN map THEN map[hit.uuid] ELSE "unmapped"

HitsOf(role) == {i \in DOMAIN event : RoleOfHit(event[i]) = role}

MaxOf(S) == CHOOSE x \in S : \A y \in S : y <= x

LastHit(role) == event[MaxOf(HitsOf(role))]

\* the timestamp captured for a delay-line role: that of its last hit
Captured(role) ==
    IF HitsOf(role) = {} THEN INVALID_VALUE ELSE LastHit(role).timestamp

FrontCaptured ==
    /\ Captured("DelayFrontLeft") # INVALID_VALUE
    /\ Captured("DelayFrontRight") # INVALID_VALUE

BackCaptured ==
    /\ Captured("DelayBackLeft") # INVALID_VALUE
    /\ Captured("DelayBackRight") # INVALID_VALUE

\* (left - right) * 0.5 / 2.1 = (left - right) * 5 / 21
Estimate1 ==
    fmul(fsub(Captured("DelayFrontLeft"), Captured("DelayFrontRight")), F(5, 21))

\* (left - right) * 0.5 / 1.98 = (left - right) * 25 / 99
Estimate2 ==
    fmul(fsub(Captured("DelayBackLeft"), Captured("DelayBackRight")), F(25, 99))

EstimateDiff == fsub(Estimate2, Estimate1)

ExpectedTheta ==
    LET q == fmul(EstimateDiff, F(1, 36))
    IN  IF EstimateDiff.n > 0 THEN [k |-> "atan", n |-> q.n, d |-> q.d]
        ELSE IF EstimateDiff.n < 0 THEN [k |-> "pi+atan", n |-> q.n, d |-> q.d]
        ELSE [k |-> "pi*q", n |-> 1, d |-> 2]

Called == calls > 0

-----------------------------------------------------------------------------
(* Properties *)

\* C1: after any number N of append_event calls on a default-constructed
\* SPSData, every field is present, every column has length N and rows = N.
RowAlignment ==
    /\ DOMAIN fields = AllFields
    /\ rows = calls
    /\ \A f \in AllFields : Len(fields[f]) = calls

RowAlignmentWitness ==
    /\ calls = MaxRows
    /\ \E f \in AllFields : fields[f][1] # INVALID_VALUE
    /\ \E f \in AllFields : LastOf(f) # INVALID_VALUE

\* C2: when several hits of the event resolve to the same role, the new row's
\* energy, short and time entries of that role hold the values of the last of
\* them, and the columns have grown by one element only.
LastHitWins ==
    Called =>
        \A role \in ColumnRoles :
            Cardinality(HitsOf(role)) >= 2 =>
                /\ LastOf(EnergyOf(role)) = LastHit(role).energy
                /\ LastOf(ShortOf(role)) = LastHit(role).energy_short
                /\ LastOf(TimeOf(role)) = LastHit(role).timestamp
                /\ Len(fields[EnergyOf(role)]) = calls
                /\ Len(fields[ShortOf(role)]) = calls
                /\ Len(fields[TimeOf(role)]) = calls

LastHitWinsWitness ==
    /\ Called
    /\ \E role \in ColumnRoles :
          \E i, j \in HitsOf(role) :
             /\ i < j
             /\ j = MaxOf(HitsOf(role))
             /\ event[i].energy # event[j].energy
             /\ event[i].energy_short # event[j].energy_short
             /\ event[i].timestamp # event[j].timestamp
             /\ LastOf(EnergyOf(role)) = event[j].energy

\* the hits of the event that the channel map knows
RECURSIVE Mapped(_)
Mapped(ev) ==
    IF ev = <<>> THEN <<>>
    ELSE IF Head(ev).uuid \in DOMAIN map
         THEN <<Head(ev)>> \o Mapped(Tail(ev))
         ELSE Mapped(Tail(ev))

\* one step: the store after the call is the store append_event leaves for
\* the same event without its unmapped hits
UnmappedSkipStep ==
    calls' = calls + 1 =>
        fields' = append_event([fields |-> fields, rows |-> rows],
                               Mapped(event'), map, weights').fields

\* C3: a hit the channel map has no role for mutates no column: every call of
\* append_event leaves the store it would leave for the same event without
\* its unmapped hits.
UnmappedSkip == [][UnmappedSkipStep]_vars

UnmappedSkipWitness ==
    /\ Called
    /\ \E i, j \in DOMAIN event :
          /\ i < j
          /\ RoleOfHit(event[i]) = "unmapped"
          /\ RoleOfHit(event[j]) \in ColumnRoles
    /\ \E i, j \in DOMAIN event :
          /\ i < j
          /\ RoleOfHit(event[j]) = "unmapped"
          /\ RoleOfHit(event[i]) \in ColumnRoles

\* the roles the event source of this run ever delivers
PoolRoles == {RoleOfHit(hit) : hit \in pool}

\* C4: in the newest row every channel column none of the event's hits is
\* routed to holds the sentinel, and so does a derived column whose inputs
\* were not captured; the columns of a role the run never delivers hold
\* nothing but sentinels; an empty event adds a row of sentinels.
DefaultPopulation ==
    Called =>
        /\ \A role \in ColumnRoles :
              HitsOf(role) = {} =>
                 /\ LastOf(EnergyOf(role)) = INVALID_VALUE
                 /\ LastOf(ShortOf(role)) = INVALID_VALUE
                 /\ LastOf(TimeOf(role)) = INVALID_VALUE
        /\ (HitsOf("DelayFrontLeft") = {} \/ HitsOf("DelayFrontRight") = {})
              => LastOf(X1) = INVALID_VALUE
        /\ (HitsOf("DelayBackLeft") = {} \/ HitsOf("DelayBackRight") = {})
              => LastOf(X2) = INVALID_VALUE
        /\ (\E role \in DelayRoles : HitsOf(role) = {})
              => LastOf(Theta) = INVALID_VALUE /\ LastOf(Xavg) = INVALID_VALUE
        /\ \A role \in ColumnRoles \ PoolRoles :
              \A f \in {EnergyOf(role), ShortOf(role), TimeOf(role)} :
                 /\ Len(fields[f]) = calls
                 /\ \A i \in 1..Len(fields[f]) : fields[f][i] = INVALID_VALUE
        /\ event = <<>> =>
              /\ rows = calls
              /\ \A f \in AllFields : LastOf(f) = INVALID_VALUE

DefaultPopulationWitness ==
    /\ calls = MaxRows
    /\ event = <<>>
    /\ \E f \in AllFields : fields[f][1] # INVALID_VALUE
    /\ \A f \in AllFields : LastOf(f) = INVALID_VALUE

\* C5: when the front pair or the back pair was not fully captured, the Theta
\* and Xavg entries of the row are the sentinel, whatever the weights; with
\* the front pair and no back pair, X1 holds the estimate and X2 the sentinel.
MissingPairSuppression ==
    Called =>
        /\ (~FrontCaptured \/ ~BackCaptured) =>
              /\ LastOf(Theta) = INVALID_VALUE
              /\ LastOf(Xavg) = INVALID_VALUE
        /\ (FrontCaptured /\ ~BackCaptured) =>
              /\ LastOf(X1) = Estimate1
              /\ LastOf(X2) = INVALID_VALUE

MissingPairSuppressionWitness ==
    /\ Called
    /\ FrontCaptured
    /\ ~BackCaptured
    /\ HitsOf("DelayBackLeft") # {}
    /\ weights.some
    /\ LastOf(X1) # INVALID_VALUE
    /\ LastOf(Xavg) = INVALID_VALUE

\* C6: when all four delay-line timestamps were captured, the Theta entry of
\* the row is atan(diff/36), pi + atan(diff/36) or pi/2 as diff is positive,
\* negative or zero, and so is not the sentinel.
ThetaWritten ==
    (Called /\ FrontCaptured /\ BackCaptured) =>
        /\ LastOf(Theta) = ExpectedTheta
        /\ LastOf(Theta) # INVALID_VALUE

\* C7: X1 differs from the sentinel only if the row's DelayFrontLeftTime and
\* DelayFrontRightTime entries both do, and is then (left - right) * 0.5 / 2.1
\* of those two entries; X2 likewise from the back pair and 1.98.
PositionEstimates ==
    Called =>
        LET fl == LastOf(DelayFrontLeftTime)
            fr == LastOf(DelayFrontRightTime)
            bl == LastOf(DelayBackLeftTime)
            br == LastOf(DelayBackRightTime)
        IN  /\ IF fl # INVALID_VALUE /\ fr # INVALID_VALUE
               THEN LastOf(X1) = fmul(fsub(fl, fr), F(5, 21))
               ELSE LastOf(X1) = INVALID_VALUE
            /\ IF bl # INVALID_VALUE /\ br # INVALID_VALUE
               THEN LastOf(X2) = fmul(fsub(bl, br), F(25, 99))
               ELSE LastOf(X2) = INVALID_VALUE

PositionEstimatesWitness ==
    /\ Called
    /\ Cardinality(HitsOf("DelayFrontLeft")) >= 2
    /\ HitsOf("DelayFrontRight") # {}
    /\ LastOf(X1) # INVALID_VALUE
    /\ LastOf(X2) = INVALID_VALUE

\* C8: when both estimates were computed, the Xavg entry of the row is
\* w0 * estimate1 + w1 * estimate2 under weights Some((w0, w1)) and the
\* sentinel under None.
AveragedPosition ==
    (Called /\ FrontCaptured /\ BackCaptured) =>
        LastOf(Xavg) =
            IF weights.some
            THEN fadd(fmul(weights.w0, Estimate1), fmul(weights.w1, Estimate2))
            ELSE INVALID_VALUE

\* C9: convert_to_series yields one series per field, in declaration order,
\* named as the field and holding the field's column of N values.
SeriesInFieldOrder ==
    consumed =>
        /\ Len(series) = Len(FieldNames)
        /\ \A i \in 1..Len(FieldNames) :
              /\ series[i].name = FieldNames[i]
              /\ series[i].values = fields[get_field_vec[i]]
              /\ Len(series[i].values) = calls

SeriesInFieldOrderWitness ==
    /\ consumed
    /\ calls = MaxRows
    /\ \E i, j \in DOMAIN series :
          /\ i < j
          /\ series[i].values # series[j].values
          /\ series[j].values[1] # INVALID_VALUE

\* one step: every entry that exists before the step is the same after it
EarlierRowsKeptStep ==
    \A f \in AllFields :
        \A i \in 1..Len(fields[f]) :
            /\ i <= Len(fields'[f])
            /\ fields'[f][i] = fields[f][i]

\* C10: a call of append_event changes no entry of a row that existed before
\* the call.
EarlierRowsKept == [][EarlierRowsKeptStep]_vars

EarlierRowsKeptWitness ==
    /\ calls = MaxRows
    /\ \E role \in ColumnRoles :
          /\ Cardinality(HitsOf(role)) >= 2
          /\ fields[EnergyOf(role)][1] # INVALID_VALUE
          /\ fields[EnergyOf(role)][1] # LastOf(EnergyOf(role))
    /\ weights.some

=============================================================================
